---- MODULE Spec2Model ----
(***************************************************************************)
(* SurrealSocket (src/src/library/SurrealSocket.ts): a reconnecting         *)
(* WebSocket RPC client.  One action per method, event handler or resumed   *)
(* continuation.  Handlers run to completion: a transport event or timer    *)
(* (a macrotask) is only dispatched when no continuation of an already       *)
(* settled promise (a microtask) is waiting to run.                          *)
(***************************************************************************)
EXTENDS Integers, Sequences, FiniteSets, TLC

\* ---- bounds of the exploration ----
MaxCalls == 3        \* calls of open/close/send/listenLive/kill, by the caller or the reconnect timer
MaxNotifs == 2       \* push notifications the server sends

\* ---- inputs ----
Subs == {"a"}
Callbacks == {"cb1"}

\* A JSON value that is not an object (null, a string, a number).
Prim == [prim |-> "null"]
IsObject(v) == "prim" \notin DOMAIN v

VARIABLES
    status,                     \* this.status
    ws,                         \* this.ws: index into sockets, 0 = undefined
    ready,                      \* this.ready: index of the socket whose promise it is, 0 = undefined
    closed,                     \* the promises made by close(), in creation order
    resolveClosed,              \* this.resolveClosed: index into closed, 0 = undefined
    queue,                      \* this.queue: request id -> index of the send call awaiting it
    liveQueue,                  \* this.liveQueue, entries in key insertion order
    unprocessedLiveResponses,   \* this.unprocessedLiveResponses
    sockets,                    \* every WebSocket constructed so far
    sends,                      \* every send() call so far
    listening,                  \* listenLive() calls suspended at their await, per subscription:
                                \*   quick = nothing was replayed, the await ends within the tick;
                                \*   slow  = awaiting what the replayed callback invocations returned
    batches,                    \* handleLiveBatch() calls suspended at their await, some callback
                                \*   of the fan-out not having completed yet
    terminated,                 \* registrations that were handed a CLOSE event so far
    delivered,                  \* numbers of the notifications handed to some callback so far
    lastId,                     \* counter behind getIncrementalID()
    timers,                     \* pending setTimeout(open, 2500) callbacks
    nregs,                      \* listenLive() calls so far
    notifs,                     \* push notifications sent by the server so far
    ncalls,                     \* method calls so far
    out,                        \* callbacks and hooks invoked by the last step, in order
    last                        \* the operation or event of the last step and the branch it took

vars == <<status, ws, ready, closed, resolveClosed, queue, liveQueue,
          unprocessedLiveResponses, sockets, sends, listening, batches, terminated, delivered,
          lastId, timers, nregs, notifs, ncalls, out, last>>

\* ---- JS object helpers for liveQueue (key order = insertion order) ----
Keys(q) == {q[i].key : i \in 1..Len(q)}
Has(q, k) == k \in Keys(q)
Idx(q, k) == CHOOSE i \in 1..Len(q) : q[i].key = k
Get(q, k) == q[Idx(q, k)].cbs
Put(q, k, v) ==
    IF Has(q, k) THEN [q EXCEPT ![Idx(q, k)].cbs = v]
    ELSE Append(q, [key |-> k, cbs |-> v])
\* (mutation: the key is not deleted)
DelKept(q, k) == q

Del(q, k) == SelectSeq(q, LAMBDA e : e.key # k)

\* delete obj[k] on a map kept as a function
Without(f, k) == [x \in DOMAIN f \ {k} |-> f[x]]
With(f, k, v) == [x \in DOMAIN f \cup {k} |-> IF x = k THEN v ELSE f[x]]

RECURSIVE Flatten(_)
Flatten(ss) == IF ss = <<>> THEN <<>> ELSE Head(ss) \o Flatten(Tail(ss))

\* ---- observation records ----
Undefined == [prim |-> "undefined"]
Call(fn, reg, data) == [fn |-> fn, reg |-> reg, data |-> data]
Hook(name) == Call(name, 0, Undefined)
Op(op, t, sub, p, branch) == [op |-> op, t |-> t, sub |-> sub, p |-> p, branch |-> branch]

SocketClosed == [action |-> "CLOSE", detail |-> "SOCKET_CLOSED"]
QueryKilled == [action |-> "CLOSE", detail |-> "QUERY_KILLED"]

Init ==
    /\ status = "CLOSED"
    /\ ws = 0
    /\ ready = 0
    /\ closed = <<>>
    /\ resolveClosed = 0
    /\ queue = <<>>
    /\ liveQueue = <<>>
    /\ unprocessedLiveResponses = <<>>
    /\ sockets = <<>>
    /\ sends = <<>>
    /\ listening = [s \in Subs |-> [quick |-> 0, slow |-> 0]]
    /\ batches = 0
    /\ terminated = {}
    /\ delivered = {}
    /\ lastId = 0
    /\ timers = 0
    /\ nregs = 0
    /\ notifs = 0
    /\ ncalls = 0
    /\ out = <<>>
    /\ last = Op("init", 0, "", 0, "")


\* ---- the transport (WebSocket) ----
\* by = who called the open() that made it: the caller ("open") or the reconnect timer ("timer")
NewSocket(by) ==
    [state |-> "connecting", closeReq |-> FALSE, resolved |-> FALSE, ready |-> "pending", by |-> by]

\* ws?.close(code, reason): starts the closing handshake of a live socket
WsClose(ss, t) ==
    IF t = 0 THEN ss
    ELSE [ss EXCEPT ![t].state = IF @ \in {"connecting", "open"} THEN "closing" ELSE @,
                    ![t].closeReq = TRUE]

\* ---- send(): await this.ready ----
\* A send() call: the promise it awaits (awaits; early = still pending at the call),
\* where it stands (waiting, pending = registered, resolved, rejected), its id,
\* how often its continuation was invoked and with which frame id, and the socket
\* its frame was written to (0 = none).
NewSend(method, sub) ==
    [method |-> method, sub |-> sub, awaits |-> ready,
     early |-> IF ready = 0 THEN FALSE ELSE sockets[ready].ready = "pending",
     state |-> "waiting", id |-> 0, calls |-> 0, reply |-> 0, wire |-> 0]

\* (mutation: send() does not await this.ready)
RunnableNoAwait(p) == sends[p].state = "waiting"

\* the promise a suspended send() awaits has settled (an undefined `ready` counts as settled)
Runnable(p) ==
    /\ sends[p].state = "waiting"
    /\ IF sends[p].awaits = 0 THEN TRUE
       ELSE sockets[sends[p].awaits].ready # "pending"

\* no continuation is due: every handler so far has run to completion
NoMicrotask ==
    /\ \A p \in 1..Len(sends) : ~Runnable(p)
    /\ \A s \in Subs : listening[s].quick = 0

\* getIncrementalID()
getIncrementalID == lastId + 1

\* ---- classification of an inbound frame ----
isLiveNotification(message) ==
    /\ "id" \notin DOMAIN message
    /\ "result" \in DOMAIN message
    /\ IsObject(message.result)
    /\ "action" \in DOMAIN message.result
    /\ "id" \in DOMAIN message.result
    /\ "result" \in DOMAIN message.result

\* { id: queryUuid, ...message }
RestOf(result) == [k \in DOMAIN result \ {"id"} |-> result[k]]

\* res.id && res.id in this.queue
Matches(res, q) == "id" \in DOMAIN res /\ res.id # 0 /\ res.id \in DOMAIN q

Notification(s, n) == [result |-> [id |-> s, action |-> "CREATE", result |-> n]]

Frames ==
    {Notification(s, notifs + 1) : s \in Subs}
    \cup {[id |-> i, result |-> Prim] : i \in 1..MaxCalls}
    \cup {[id |-> 1, result |-> [id |-> "a", action |-> "CREATE", result |-> 0]],
          [id |-> 0, result |-> Prim],
          [result |-> Prim],
          [result |-> [id |-> "a", action |-> "CREATE"]]}

\* ---- listener fan-out ----
\* (mutation: a callback registered more than once is invoked for its first registration only)
InvokeAllDistinct(cbs, data) ==
    LET first == SelectSeq(cbs, LAMBDA e : \A j \in 1..Len(cbs) :
                                            cbs[j].cb = e.cb => cbs[j].reg >= e.reg)
    IN  [i \in 1..Len(first) |-> Call(first[i].cb, first[i].reg, data)]

\* cbs.map((cb) => cb(data))
InvokeAll(cbs, data) == [i \in 1..Len(cbs) |-> Call(cbs[i].cb, cbs[i].reg, data)]

\* the registrations that a sequence of invocations hands a CLOSE event
Closes(calls) ==
    {calls[i].reg : i \in {j \in 1..Len(calls) : calls[j].data \in {SocketClosed, QueryKilled}}}

\* (mutation: only the first listener of each subscription is told)
CloseNotificationsFirstOnly(q) ==
    Flatten([i \in 1..Len(q) |-> InvokeAll(SubSeq(q[i].cbs, 1, 1), SocketClosed)])

\* Object.values(this.liveQueue).map((query) => query.map((cb) => cb(CLOSE/SOCKET_CLOSED)))
CloseNotifications(q) == Flatten([i \in 1..Len(q) |-> InvokeAll(q[i].cbs, SocketClosed)])

\* this.unprocessedLiveResponses[queryUuid]?.map(callback) ?? []
Replay(u, k, cb, reg) ==
    IF k \in DOMAIN u THEN [i \in 1..Len(u[k]) |-> Call(cb, reg, u[k][i])] ELSE <<>>

\* handleLiveBatch, no listener: create the buffer if needed and push the message
Buffered(u, k, message) ==
    With(u, k, Append(IF k \in DOMAIN u THEN u[k] ELSE <<>>, message))

\* one more call of a method, within the bound of the exploration
Called == ncalls < MaxCalls /\ ncalls' = ncalls + 1

\* ---- open() and close() ----
\* close(reason), up to its await
Close ==
    /\ Called
    /\ status' = "CLOSED"
    /\ closed' = Append(closed, "pending")
    /\ resolveClosed' = Len(closed) + 1
    /\ sockets' = WsClose(sockets, ws)
    /\ out' = <<Hook("onClose")>>
    /\ last' = Op("close", ws, "", 0, "")
    /\ UNCHANGED <<ws, ready, batches, terminated, queue, liveQueue, unprocessedLiveResponses, sends,
                   listening, lastId, timers, nregs, notifs, delivered>>

\* open(): this.close(1000), then a new WebSocket with its handlers
DoOpen(op) ==
    /\ status' = "CLOSED"
    /\ closed' = Append(closed, "pending")
    /\ resolveClosed' = Len(closed) + 1
    /\ sockets' = Append(WsClose(sockets, ws), NewSocket(op))
    /\ ready' = Len(sockets) + 1
    /\ ws' = Len(sockets) + 1
    /\ out' = <<Hook("onClose")>>
    /\ last' = Op(op, Len(sockets) + 1, "", 0, "")
    /\ UNCHANGED <<queue, liveQueue, unprocessedLiveResponses, sends, listening,
                   batches, terminated, lastId, nregs, notifs, delivered>>

Open == Called /\ DoOpen("open") /\ UNCHANGED timers

\* setTimeout(() => this.open(), 2500) fires
TimerFire ==
    /\ timers > 0
    /\ NoMicrotask
    /\ Called
    /\ timers' = timers - 1
    /\ DoOpen("timer")

\* (mutation: the `resolved` flag is not consulted)
SettleAgain(s, outcome) == outcome

\* if (!resolved) { resolved = true; resolve() / reject(...) }
Settle(s, outcome) == IF s.resolved THEN s.ready ELSE outcome

\* ws "open" event
OpenEvent(t) ==
    /\ sockets[t].state = "connecting"
    /\ NoMicrotask
    /\ status' = "OPEN"
    /\ sockets' = [sockets EXCEPT ![t].state = "open",
                                  ![t].resolved = TRUE,
                                  ![t].ready = Settle(sockets[t], "resolved")]
    /\ out' = <<Hook("onConnect")>>
    /\ last' = Op("open_event", t, "", 0, "")
    /\ UNCHANGED <<ws, ready, batches, terminated, closed, resolveClosed, queue, liveQueue,
                   unprocessedLiveResponses, sends, listening, lastId, timers, nregs, ncalls, notifs, delivered>>

\* ws "error" event
ErrorEvent(t) ==
    /\ sockets[t].state \in {"connecting", "open", "closing"}
    /\ NoMicrotask
    /\ status' = "CLOSED"
    /\ sockets' = [sockets EXCEPT ![t].state = "failed",
                                  ![t].resolved = TRUE,
                                  ![t].ready = Settle(sockets[t], "rejected")]
    /\ out' = IF sockets[t].resolved THEN <<>> ELSE <<Hook("onError")>>
    /\ last' = Op("error_event", t, "", 0, "")
    /\ UNCHANGED <<ws, ready, batches, terminated, closed, resolveClosed, queue, liveQueue,
                   unprocessedLiveResponses, sends, listening, lastId, timers, nregs, ncalls, notifs, delivered>>

\* (mutation: the close handler leaves this.queue as it is)
CloseEventKeepsQueue(t) ==
    /\ sockets[t].state \in {"open", "closing", "failed"}
    /\ NoMicrotask
    /\ closed' = IF resolveClosed = 0 THEN closed
                 ELSE [closed EXCEPT ![resolveClosed] = "resolved"]
    /\ queue' = queue
    /\ liveQueue' = <<>>
    /\ unprocessedLiveResponses' = <<>>
    /\ IF status # "CLOSED"
       THEN /\ status' = "RECONNECTING"
            /\ timers' = timers + 1
            /\ out' = Append(CloseNotifications(liveQueue), Hook("onClose"))
       ELSE /\ out' = CloseNotifications(liveQueue)
            /\ UNCHANGED <<status, timers>>
    /\ sockets' = [sockets EXCEPT ![t].state = "closed"]
    /\ last' = Op("close_event", t, "", 0, "")
    /\ terminated' = terminated \cup Closes(out')
    /\ UNCHANGED <<ws, ready, batches, resolveClosed, sends, listening, lastId, nregs, ncalls, notifs, delivered>>

\* ws "close" event
CloseEvent(t) ==
    /\ sockets[t].state \in {"open", "closing", "failed"}
    /\ NoMicrotask
    /\ closed' = IF resolveClosed = 0 THEN closed
                 ELSE [closed EXCEPT ![resolveClosed] = "resolved"]
    /\ queue' = <<>>
    /\ liveQueue' = <<>>
    /\ unprocessedLiveResponses' = <<>>
    /\ IF status # "CLOSED"
       THEN /\ status' = "RECONNECTING"
            /\ timers' = timers + 1
            /\ out' = Append(CloseNotifications(liveQueue), Hook("onClose"))
       ELSE /\ out' = CloseNotifications(liveQueue)
            /\ UNCHANGED <<status, timers>>
    /\ sockets' = [sockets EXCEPT ![t].state = "closed"]
    /\ last' = Op("close_event", t, "", 0, "")
    /\ terminated' = terminated \cup Closes(out')
    /\ UNCHANGED <<ws, ready, batches, resolveClosed, sends, listening, lastId, nregs, ncalls, notifs, delivered>>

\* ---- send() ----
\* send(method, params) up to `await this.ready`
Send ==
    /\ Called
    /\ sends' = Append(sends, NewSend("ping", ""))
    /\ out' = <<>>
    /\ last' = Op("send", ready, "", Len(sends) + 1, "")
    /\ UNCHANGED <<status, ws, ready, batches, terminated, closed, resolveClosed, queue, liveQueue,
                   unprocessedLiveResponses, sockets, listening, lastId, timers, nregs, notifs, delivered>>

\* this.ws?.send(frame): what becomes of the send() call p that makes it.
\* An established socket takes the frame; a connecting one throws; one that is
\* closing or closed drops the frame silently or throws, depending on the runtime.
WsSendOutcomes(p) ==
    IF ws = 0 THEN {[state |-> "pending", wire |-> 0]}
    ELSE IF sockets[ws].state = "open" THEN {[state |-> "pending", wire |-> ws]}
    ELSE IF sockets[ws].state = "connecting" THEN {[state |-> "rejected", wire |-> 0]}
    ELSE {[state |-> "pending", wire |-> 0], [state |-> "rejected", wire |-> 0]}

\* send() after `await this.ready`: continuations run in the order they were queued
SendResume(p) ==
    /\ Runnable(p)
    /\ \A q \in 1..(p - 1) : ~Runnable(q)
    /\ IF sends[p].awaits # 0 /\ sockets[sends[p].awaits].ready = "rejected"
       THEN /\ sends' = [sends EXCEPT ![p].state = "rejected"]
            /\ UNCHANGED <<queue, lastId>>
       ELSE /\ lastId' = getIncrementalID
            /\ queue' = With(queue, getIncrementalID, p)
            /\ \E o \in WsSendOutcomes(p) :
                 sends' = [sends EXCEPT ![p].id = getIncrementalID,
                                        ![p].state = o.state,
                                        ![p].wire = o.wire]
    /\ out' = <<>>
    /\ last' = Op("send_resume", ws, sends[p].sub, p, "")
    /\ UNCHANGED <<status, ws, ready, batches, terminated, closed, resolveClosed, liveQueue,
                   unprocessedLiveResponses, sockets, listening, timers, nregs, ncalls, notifs, delivered>>

\* ---- listenLive() ----
\* the notification numbers among the payloads of a sequence of callback invocations
Numbers(calls) == {calls[i].data.result : i \in {j \in 1..Len(calls) : "result" \in DOMAIN calls[j].data}}

\* listenLive(queryUuid, callback) up to its await
ListenLive(queryUuid, callback) ==
    /\ Called
    /\ nregs' = nregs + 1
    /\ liveQueue' = Put(liveQueue, queryUuid,
                        Append(IF Has(liveQueue, queryUuid) THEN Get(liveQueue, queryUuid) ELSE <<>>,
                               [cb |-> callback, reg |-> nregs + 1]))
    /\ out' = Replay(unprocessedLiveResponses, queryUuid, callback, nregs + 1)
    /\ delivered' = delivered \cup Numbers(out')
    /\ listening' = IF out' = <<>>
                    THEN [listening EXCEPT ![queryUuid].quick = @ + 1]
                    ELSE [listening EXCEPT ![queryUuid].slow = @ + 1]
    /\ last' = Op("listenLive", 0, queryUuid, nregs + 1, "")
    /\ UNCHANGED <<status, ws, ready, batches, terminated, closed, resolveClosed, queue,
                   unprocessedLiveResponses, sockets, sends, lastId, timers, notifs>>

\* listenLive() after `await Promise.all(...)`: delete the buffer entry
ListenLiveDone(queryUuid, kind) ==
    /\ listening[queryUuid][kind] > 0
    /\ listening' = [listening EXCEPT ![queryUuid][kind] = @ - 1]
    /\ unprocessedLiveResponses' = Without(unprocessedLiveResponses, queryUuid)
    /\ out' = <<>>
    /\ last' = Op("listenLive_done", 0, queryUuid, 0, kind)
    /\ UNCHANGED <<status, ws, ready, batches, terminated, closed, resolveClosed, queue, liveQueue,
                   sockets, sends, delivered, lastId, timers, nregs, notifs, ncalls>>

\* ---- kill() ----
\* (mutation: the listener list is deleted before it is walked)
KillNotificationsAfterDelete(q, queryUuid) ==
    IF Has(Del(q, queryUuid), queryUuid) THEN InvokeAll(Get(q, queryUuid), QueryKilled) ELSE <<>>

\* liveQueue[queryUuid].forEach((cb) => cb(CLOSE/QUERY_KILLED))
KillNotifications(q, queryUuid) ==
    IF Has(q, queryUuid) THEN InvokeAll(Get(q, queryUuid), QueryKilled) ELSE <<>>

\* kill(queryUuid) up to the `await this.ready` inside its send("kill", ...)
Kill(queryUuid) ==
    /\ Called
    /\ out' = KillNotifications(liveQueue, queryUuid)
    /\ liveQueue' = Del(liveQueue, queryUuid)
    /\ sends' = Append(sends, NewSend("kill", queryUuid))
    /\ terminated' = terminated \cup Closes(out')
    /\ last' = Op("kill", ready, queryUuid, Len(sends) + 1, "")
    /\ UNCHANGED <<status, ws, ready, batches, closed, resolveClosed, queue,
                   unprocessedLiveResponses, sockets, listening, lastId, timers, nregs, notifs, delivered>>

\* (mutation: the buffer entry is kept)
AfterKillKept(u, queryUuid) == u

\* kill() after `await this.send(...)`: delete the buffer entry
AfterKill(u, queryUuid) == Without(u, queryUuid)

\* ---- ws "message" event ----
\* this.queue[res.id](res): the continuation of send call p is invoked
Invoked(ss, p, res) ==
    [ss EXCEPT ![p].calls = @ + 1,
               ![p].state = IF @ = "pending" THEN "resolved" ELSE @,
               ![p].reply = IF ss[p].state = "pending" THEN res.id ELSE @]

\* (mutation: the entry is not deleted)
DispatchedKept(q, id) == q

\* delete this.queue[res.id]
Dispatched(q, id) == Without(q, id)

\* (mutation: an unmatched frame empties the pending-request map)
DroppedClearsQueue ==
    /\ out' = <<>>
    /\ queue' = <<>>
    /\ UNCHANGED <<sends, unprocessedLiveResponses, delivered, batches>>

\* neither branch of the message handler is taken: nothing is done with the frame
Dropped ==
    /\ out' = <<>>
    /\ UNCHANGED <<queue, sends, unprocessedLiveResponses, delivered, batches>>

MessageEvent(t, res) ==
    /\ sockets[t].state = "open"
    /\ NoMicrotask
    /\ IF isLiveNotification(res)
       THEN notifs < MaxNotifs /\ notifs' = notifs + 1
       ELSE UNCHANGED notifs
    /\ IF isLiveNotification(res)
       THEN \* handleLiveBatch(res.result)
            /\ IF Has(liveQueue, res.result.id)
               THEN \* await Promise.all(...): over within the tick, or once the
                    \* promises the callbacks returned have settled
                    /\ out' = InvokeAll(Get(liveQueue, res.result.id), RestOf(res.result))
                    /\ delivered' = delivered \cup Numbers(out')
                    /\ batches' \in {batches, batches + 1}
                    /\ UNCHANGED unprocessedLiveResponses
               ELSE /\ unprocessedLiveResponses' =
                         Buffered(unprocessedLiveResponses, res.result.id, RestOf(res.result))
                    /\ out' = <<>>
                    /\ UNCHANGED <<delivered, batches>>
            /\ UNCHANGED <<queue, sends>>
       ELSE IF Matches(res, queue)
       THEN /\ sends' = Invoked(sends, queue[res.id], res)
            /\ queue' = Dispatched(queue, res.id)
            /\ unprocessedLiveResponses' =
                 IF sends[queue[res.id]].method = "kill" /\ sends[queue[res.id]].state = "pending"
                 THEN AfterKill(unprocessedLiveResponses, sends[queue[res.id]].sub)
                 ELSE unprocessedLiveResponses
            /\ out' = <<>>
            /\ UNCHANGED <<delivered, batches>>
       ELSE Dropped
    /\ last' = IF isLiveNotification(res) THEN Op("message", t, res.result.id, 0, "live")
               ELSE IF Matches(res, queue) THEN Op("message", t, "", queue[res.id], "reply")
               ELSE Op("message", t, "", 0, "dropped")
    /\ UNCHANGED <<status, ws, ready, closed, resolveClosed, liveQueue, sockets,
                   listening, terminated, lastId, timers, nregs, ncalls>>

\* handleLiveBatch() after `await Promise.all(...)`: the fan-out has completed
HandleLiveBatchDone ==
    /\ batches > 0
    /\ batches' = batches - 1
    /\ out' = <<>>
    /\ last' = Op("handleLiveBatch_done", 0, "", 0, "")
    /\ UNCHANGED <<status, ws, ready, closed, resolveClosed, queue, liveQueue,
                   unprocessedLiveResponses, sockets, sends, listening, terminated,
                   delivered, lastId, timers, nregs, notifs, ncalls>>

Next ==
    \/ Open
    \/ Close
    \/ TimerFire
    \/ \E t \in 1..Len(sockets) : OpenEvent(t)
    \/ \E t \in 1..Len(sockets) : ErrorEvent(t)
    \/ \E t \in 1..Len(sockets) : CloseEvent(t)
    \/ \E t \in 1..Len(sockets), res \in Frames : MessageEvent(t, res)
    \/ Send
    \/ \E p \in 1..Len(sends) : SendResume(p)
    \/ \E s \in Subs, cb \in Callbacks : ListenLive(s, cb)
    \/ \E s \in Subs, kind \in {"quick", "slow"} : ListenLiveDone(s, kind)
    \/ \E s \in Subs : Kill(s)
    \/ HandleLiveBatchDone

Spec == Init /\ [][Next]_vars

\* The event loop runs every due continuation, and a transport that has been told
\* to close, or that has failed, delivers its close event.
FairSpec ==
    /\ Spec
    /\ WF_vars(\E p \in 1..Len(sends) : SendResume(p))
    /\ WF_vars(\E s \in Subs : ListenLiveDone(s, "quick"))
    /\ \A t \in 1..MaxCalls : WF_vars(t <= Len(sockets) /\ CloseEvent(t))

\* ======================= claims =======================
Buf(u, s) == IF s \in DOMAIN u THEN u[s] ELSE <<>>
BufNums(u, s) == {Buf(u, s)[i].result : i \in 1..Len(Buf(u, s))}
KillInFlight(s) ==
    \E p \in 1..Len(sends) :
        sends[p].method = "kill" /\ sends[p].sub = s /\ sends[p].state \in {"waiting", "pending"}
\* this step is the arrival of a push notification for s
Arrives(s) == last'.op = "message" /\ notifs' = notifs + 1 /\ last'.sub = s

\* a notification for s that arrives while s has no listener is appended to s's buffer
C1_Arrival(s) ==
    (Arrives(s) /\ ~Has(liveQueue, s)) =>
        /\ out' = <<>>
        /\ Buf(unprocessedLiveResponses', s) =
             Append(Buf(unprocessedLiveResponses, s), [action |-> "CREATE", result |-> notifs + 1])
\* the first listenLive(s, cb) is handed the whole buffer, oldest first, once each
C1_Replay(s) ==
    (last'.op = "listenLive" /\ last'.sub = s /\ ~Has(liveQueue, s)) =>
        /\ Len(out') = Len(Buf(unprocessedLiveResponses, s))
        /\ \A i \in 1..Len(out') :
             out'[i].reg = last'.p /\ out'[i].data = Buf(unprocessedLiveResponses, s)[i]
\* when that listenLive returns, s has no buffer entry
C1_Done(s) ==
    (last'.op = "listenLive_done" /\ last'.sub = s) => s \notin DOMAIN unprocessedLiveResponses'
\* a buffered notification leaves the buffer delivered, unless a kill(s) or a closure intervenes
C1_Kept(s) ==
    \A n \in BufNums(unprocessedLiveResponses, s) \ BufNums(unprocessedLiveResponses', s) :
        n \in delivered' \/ last'.op = "close_event" \/ KillInFlight(s)

\* C1: a notification that arrives while S has no listener is buffered, not dropped,
\* and, no kill(S) or closure intervening, the first listenLive(S, cb) afterwards is
\* handed every buffered payload once, oldest first, after which S has no buffer entry.
C1_BufferedUntilFirstListener ==
    [][\A s \in Subs : C1_Arrival(s) /\ C1_Replay(s) /\ C1_Done(s) /\ C1_Kept(s)]_vars

\* C2: a second listenLive(S, cb2), made while a listener is registered for S, is
\* never handed a buffered payload: only the first listener gets the replay.
C2_OnlyFirstListenerReplayed ==
    [][\A s \in Subs :
         (last'.op = "listenLive" /\ last'.sub = s /\ Has(liveQueue, s)) => out' = <<>>]_vars

\* the registrations held in the listener map
Regs(q) == {Flatten([i \in 1..Len(q) |-> q[i].cbs])[j].reg :
              j \in 1..Len(Flatten([i \in 1..Len(q) |-> q[i].cbs]))}
CallsOf(calls, r) == {i \in 1..Len(calls) : calls[i].reg = r}

\* C3: a transport close event invokes every registered listener exactly once, with
\* CLOSE/SOCKET_CLOSED, and leaves queue, liveQueue and the buffer empty.
C3_CloseNotifiesAndClears ==
    [][last'.op = "close_event" =>
         /\ \A r \in Regs(liveQueue) :
              /\ Cardinality(CallsOf(out', r)) = 1
              /\ \A i \in CallsOf(out', r) : out'[i].data = SocketClosed
         /\ \A i \in 1..Len(out') : out'[i].reg # 0 => out'[i].reg \in Regs(liveQueue)
         /\ queue' = <<>>
         /\ liveQueue' = <<>>
         /\ unprocessedLiveResponses' = <<>>]_vars
C3_Witness ==
    /\ last.op = "close_event"
    /\ Cardinality({i \in 1..Len(out) : out[i].data = SocketClosed}) = 2

\* C4: close() leaves status CLOSED, and the close event of a transport the caller
\* closed (by close() or by open()) neither sets RECONNECTING nor schedules open().
C4_CallerCloseNeverReconnects ==
    [][/\ last'.op = "close" => status' = "CLOSED"
       /\ (last'.op = "close_event" /\ sockets[last'.t].closeReq) =>
            (status' # "RECONNECTING" /\ timers' = timers)]_vars

\* C5: the close event of the current transport, when no close() or open() asked
\* for it, leaves a scheduled open() pending, also when an error event came before
\* it.  (Stated for a transport that had been established: a lost connection.)
C5_UnsolicitedCloseSchedulesOpen ==
    [][(/\ last'.op = "close_event" /\ last'.t = ws
        /\ ~sockets[last'.t].closeReq
        /\ sockets[last'.t].ready = "resolved") =>
         timers' > 0]_vars

\* C6: status reads RECONNECTING from the unsolicited close event until the new
\* transport is established, so also once the scheduled open() has started.
C6_ReconnectingUntilEstablished ==
    [][(last'.op = "timer" /\ status = "RECONNECTING") => status' = "RECONNECTING"]_vars

\* C7: a send() issued while the ready promise of its open() is still pending neither
\* registers its continuation, nor writes its frame, nor settles successfully before
\* that transport has reported its establishment.
C7_SendWaitsForReady ==
    \A p \in 1..Len(sends) :
        (sends[p].early /\ (sends[p].id # 0 \/ sends[p].wire # 0 \/ sends[p].state = "resolved"
                            \/ \E i \in DOMAIN queue : queue[i] = p))
            => sockets[sends[p].awaits].ready = "resolved"
C7_Witness ==
    \E p \in 1..Len(sends) :
        sends[p].early /\ sends[p].state = "pending" /\ sends[p].wire = sends[p].awaits

\* C8: whatever the order of the replies, the continuation of a send() is invoked at
\* most once, with the frame that carries its own id, and its queue entry goes with
\* that frame: an id is held by one continuation, a repeated frame resolves nothing.
C8_RepliesMatchedOnce ==
    /\ \A p \in 1..Len(sends) :
         /\ sends[p].calls <= 1
         /\ sends[p].state = "resolved" =>
              (sends[p].id # 0 /\ sends[p].reply = sends[p].id /\ sends[p].calls = 1)
    /\ \A i \in DOMAIN queue : sends[queue[i]].id = i /\ sends[queue[i]].calls = 0
    /\ \A p, q \in 1..Len(sends) : (p # q /\ sends[p].id # 0) => sends[p].id # sends[q].id
C8_Witness ==
    /\ Len(sends) >= 2
    /\ last.op = "message" /\ last.branch = "reply" /\ last.p = 1
    /\ sends[1].state = "resolved" /\ sends[2].state = "resolved"
    /\ sends[1].id < sends[2].id

\* C9: kill(S) hands CLOSE/QUERY_KILLED to every listener registered for S, once each
\* and in order, and removes S's listener list, all before its kill frame is written.
C9_KillNotifiesBeforeSending ==
    [][last'.op = "kill" =>
         /\ Len(out') = (IF Has(liveQueue, last'.sub) THEN Len(Get(liveQueue, last'.sub)) ELSE 0)
         /\ \A i \in 1..Len(out') :
              /\ out'[i].reg = Get(liveQueue, last'.sub)[i].reg
              /\ out'[i].data = QueryKilled
         /\ ~Has(liveQueue', last'.sub)
         /\ sends'[last'.p].method = "kill"
         /\ sends'[last'.p].state = "waiting"
         /\ sends'[last'.p].id = 0
         /\ sends'[last'.p].wire = 0]_vars
C9_Witness ==
    /\ last.op = "kill"
    /\ Len(out) = 2
    /\ \A i \in 1..Len(out) : out[i].data = QueryKilled

\* C10: once kill(S) has removed S's listeners, a notification for S is handed to no
\* listener but appended to S's buffer; and when the kill reply resolves kill(S), S has
\* no buffer entry.
C10_KilledSubscriptionBuffers ==
    [][\A s \in Subs :
         /\ (Arrives(s) /\ KillInFlight(s) /\ ~Has(liveQueue, s)) =>
              /\ out' = <<>>
              /\ Buf(unprocessedLiveResponses', s) =
                   Append(Buf(unprocessedLiveResponses, s),
                          [action |-> "CREATE", result |-> notifs + 1])
         /\ (/\ last'.op = "message" /\ last'.branch = "reply"
             /\ sends[last'.p].method = "kill" /\ sends[last'.p].sub = s
             /\ sends[last'.p].state = "pending" /\ sends'[last'.p].state = "resolved") =>
              s \notin DOMAIN unprocessedLiveResponses']_vars
C10_Witness ==
    /\ last.op = "message" /\ last.branch = "reply"
    /\ sends[last.p].method = "kill" /\ sends[last.p].state = "resolved"
    /\ sends[last.p].wire # 0
    /\ nregs >= 1 /\ notifs >= 1 /\ delivered = {}
    /\ unprocessedLiveResponses = <<>>

\* the i-th close() call has been made by the caller / its future has completed
CloseCalled(i) == last.op = "close" /\ resolveClosed = i
CloseReturned(i) == i <= Len(closed) /\ closed[i] = "resolved"

\* C11: every close() call of the caller eventually returns, given that every transport
\* told to close delivers its close event; also with no transport, with a transport
\* that is already closed, and when another close() or open() overlaps.
C11_CloseReturns ==
    \A i \in 1..MaxCalls : CloseCalled(i) ~> CloseReturned(i)

\* C12: the ready promise of an open() call is settled at most once: by the open event
\* if it comes first (status OPEN, onConnect invoked), by the error event if that comes
\* first (status CLOSED, onError invoked once); a later event leaves it as it is.
C12_ReadySettledOnce ==
    [][\A t \in 1..Len(sockets) :
         /\ sockets[t].ready # "pending" => sockets'[t].ready = sockets[t].ready
         /\ (last'.op = "open_event" /\ last'.t = t) =>
              /\ status' = "OPEN"
              /\ out' = <<Hook("onConnect")>>
              /\ sockets[t].ready = "pending" => sockets'[t].ready = "resolved"
         /\ (last'.op = "error_event" /\ last'.t = t) =>
              /\ status' = "CLOSED"
              /\ IF sockets[t].ready = "pending"
                 THEN sockets'[t].ready = "rejected" /\ out' = <<Hook("onError")>>
                 ELSE out' = <<>>]_vars
C12_Witness ==
    /\ last.op = "error_event"
    /\ sockets[last.t].ready = "resolved"

\* C13: inbound frames are handled one at a time, and after a notification was fanned
\* out, the next frame is not handled before every listener's delivery has completed,
\* also when callbacks complete asynchronously.
C13_FanOutAwaitedBeforeNextFrame ==
    [][last'.op = "message" => batches = 0]_vars

\* the continuation of send call p is held in the pending-request map
InQueue(p) == \E i \in DOMAIN queue : queue[i] = p
\* the frame of send call p was written, and its transport closed before any reply
Abandoned(p) ==
    /\ sends[p].wire # 0
    /\ sockets[sends[p].wire].state = "closed"
    /\ sends[p].calls = 0

\* C14: when the transport closes after a send() wrote its frame and before its reply,
\* the continuation is gone with the pending-request map and the send is never settled
\* afterwards, neither resolved nor rejected, whatever arrives on a later transport.
C14_AbandonedSendNeverSettles ==
    [][\A p \in 1..Len(sends) :
         Abandoned(p) =>
             /\ sends[p].state = "pending"
             /\ ~InQueue(p)
             /\ sends'[p] = sends[p]]_vars
C14_Witness ==
    /\ Len(sends) >= 1
    /\ Abandoned(1)
    /\ last.op = "message" /\ last.t # sends[1].wire
    /\ sockets[last.t].state = "open"
    /\ sends[1].state = "pending"

\* C15: reconnection is a loop: when the transport made by a scheduled open() fails to
\* establish (error, then close) and the caller has called nothing, its close event
\* leaves a further open() scheduled.
C15_ReconnectLoop ==
    [][(/\ last'.op = "close_event" /\ last'.t = ws
        /\ sockets[ws].by = "timer"
        /\ sockets[ws].ready = "rejected"
        /\ ~sockets[ws].closeReq) =>
         timers' > 0]_vars

\* C16: a frame that is not a push notification and whose id is absent or matches no
\* pending request changes nothing: status, the three maps and every send() stay as
\* they are, and no continuation, listener or hook is invoked.
C16_DroppedFrameChangesNothing ==
    [][(last'.op = "message" /\ last'.branch = "dropped") =>
         /\ status' = status
         /\ queue' = queue
         /\ liveQueue' = liveQueue
         /\ unprocessedLiveResponses' = unprocessedLiveResponses
         /\ sends' = sends
         /\ out' = <<>>]_vars
C16_Witness ==
    /\ last.op = "message" /\ last.branch = "dropped"
    /\ queue # <<>>
    /\ liveQueue # <<>>
    /\ unprocessedLiveResponses # <<>>

\* C17: a notification for S that arrives while S has listeners is handed, without the
\* subscription id, to every registration of S's list in registration order, once per
\* registration (a callback registered twice is invoked twice), and nothing is buffered.
C17_FanOutToEveryRegistration ==
    [][\A s \in Subs :
         (Arrives(s) /\ Has(liveQueue, s)) =>
             /\ Len(out') = Len(Get(liveQueue, s))
             /\ \A i \in 1..Len(out') :
                  out'[i] = Call(Get(liveQueue, s)[i].cb, Get(liveQueue, s)[i].reg,
                                 [action |-> "CREATE", result |-> notifs + 1])
             /\ unprocessedLiveResponses' = unprocessedLiveResponses]_vars
C17_Witness ==
    /\ last.op = "message" /\ last.branch = "live"
    /\ Len(out) = 2
    /\ out[1].fn = out[2].fn /\ out[1].reg < out[2].reg
    /\ out[1].data = [action |-> "CREATE", result |-> notifs]

\* C18: a close or error event of a transport that a later open() has superseded does
\* not touch the new connection: once the new transport is established, status stays
\* OPEN, no open() is scheduled and the requests written to the new transport stay in
\* the pending-request map.
C18_SupersededTransportIgnored ==
    [][(/\ last'.op \in {"close_event", "error_event"}
        /\ last'.t < ws
        /\ sockets[ws].state = "open"
        /\ status = "OPEN") =>
         /\ status' = "OPEN"
         /\ timers' = timers
         /\ \A i \in DOMAIN queue : sends[queue[i]].wire = ws => i \in DOMAIN queue']_vars

\* C19: a continuation is registered in the pending-request map only by a send() whose
\* frame is written to an established transport: the map never holds an entry whose
\* frame was not transmitted.
C19_RegisteredSendIsTransmitted ==
    \A i \in DOMAIN queue : sends[queue[i]].wire # 0

\* C20: a registration that was handed a CLOSE event (QUERY_KILLED or SOCKET_CLOSED)
\* is never invoked again: not with a notification, not with a replayed payload, not
\* with a second CLOSE event.
C20_NothingAfterClose ==
    [][/\ \A i \in 1..Len(out') : out'[i].reg # 0 => out'[i].reg \notin terminated
       /\ \A i, j \in 1..Len(out') :
            (i < j /\ out'[i].reg # 0 /\ out'[i].reg = out'[j].reg) =>
                out'[i].data \notin {SocketClosed, QueryKilled}]_vars
C20_Witness ==
    /\ terminated # {}
    /\ last.op = "message" /\ last.branch = "live"
    /\ out = <<>>
    /\ Buf(unprocessedLiveResponses, last.sub) # <<>>

====
